---- MODULE Spec2Model ----
(***************************************************************************)
(* Ground-track engine of orbital-mechanics-python:                        *)
(*   OrbitalPropagator.propagate_multiple / eci_to_geodetic /              *)
(*   get_current_position          (src/src/orbital_propagation.py)        *)
(*   GroundTrackVisualizer._plot_track_segments / plot_multiple_orbits /   *)
(*   _plot_track_segments_colored  (src/src/ground_track_viz.py)           *)
(*   TLEParser.parse_tle / read_tle / extract_orbital_elements             *)
(*                                 (src/src/tle_parser.py)                 *)
(*                                                                         *)
(* Numbers are integers.  Angles are counted in units of 0.05 degree       *)
(* (Deg(180) = 3600, 179.9 degrees = 3598), instants in ticks of 12 s      *)
(* since J2000.0 (one minute = 5 ticks).  In these units the Earth turns   *)
(* one angle unit per tick (7.2921159e-5 rad/s = 1.0027 units per tick)    *)
(* and the sidereal angle at J2000.0, 4.894961212823756 rad = 280.46       *)
(* degrees, is 5609 units.                                                 *)
(***************************************************************************)
EXTENDS Integers, Sequences, FiniteSets, TLC

VARIABLES
    pc,                 \* position of the running call
    caller,             \* which public operation was called
    exception,          \* the exception that left the call, or "none"
    \* ---- _plot_track_segments
    lats, lons,         \* the arguments
    seg_i,              \* loop index i (0-based, as in the source)
    segments_lats, segments_lons,
    current_seg_lats, current_seg_lons,
    \* ---- propagate_multiple / get_current_position
    start_time, duration_hours, time_step_minutes,
    num_steps,
    i,                  \* loop index i of propagate_multiple
    results,            \* the list being built and returned
    calls,              \* every propagate_single call made: epoch and error code
    warnings,           \* epochs of the printed warnings
    returned,           \* the value handed back to the caller
    \* ---- eci_to_geodetic called on its own
    geo_position, geo_dt, geo_out,
    \* ---- plot_multiple_orbits
    part_results,       \* the argument results
    num_orbits,
    points_per_orbit,
    orbit_num,          \* loop index orbit_num
    slices,             \* what was handed to _plot_track_segments_colored
    \* ---- _plot_track_segments_colored called on the segmenter's arguments
    col_segments_lats, col_segments_lons,
    \* ---- TLEParser
    satellite, satellite_name,
    parsed_ok,          \* a parse_tle call has returned normally
    last_call,          \* the last TLEParser method called and how it ended
    ops                 \* number of TLEParser calls made

vars == << pc, caller, exception,
           lats, lons, seg_i, segments_lats, segments_lons,
           current_seg_lats, current_seg_lons,
           start_time, duration_hours, time_step_minutes, num_steps, i,
           results, calls, warnings, returned,
           geo_position, geo_dt, geo_out,
           part_results, num_orbits, points_per_orbit, orbit_num, slices,
           col_segments_lats, col_segments_lons,
           satellite, satellite_name, parsed_ok, last_call, ops >>

segVars  == << lats, lons, seg_i, segments_lats, segments_lons,
               current_seg_lats, current_seg_lons >>
propVars == << start_time, duration_hours, time_step_minutes, num_steps, i,
               results, calls, warnings, returned >>
geoVars  == << geo_position, geo_dt, geo_out >>
partVars == << part_results, num_orbits, points_per_orbit, orbit_num, slices >>
colVars  == << col_segments_lats, col_segments_lons >>
tleVars  == << satellite, satellite_name, parsed_ok, last_call, ops >>

-----------------------------------------------------------------------------
(* Bounds of the model *)

\* longest latitude/longitude list handed to the segmenter
MaxTrack == 3

\* largest num_steps a modelled propagation may compute
MaxSteps == 9

\* longest sample list handed to plot_multiple_orbits
MaxSamples == 55

\* most TLEParser calls made on one parser
MaxParserOps == 4

\* eci_to_geodetic is called on its own at instants 0 .. MaxGeoTicks
MaxGeoTicks == 7300

-----------------------------------------------------------------------------
(* Units and arithmetic helpers *)

\* an angle of d degrees, in angle units
Deg(d) == 20 * d

\* abs()
Abs(n) == IF n < 0 THEN -n ELSE n

\* int(a / b) for b # 0: Python's int() truncates toward zero
IntTrunc(a, b) ==
    IF (a >= 0 /\ b > 0) \/ (a <= 0 /\ b < 0)
    THEN Abs(a) \div Abs(b)
    ELSE -(Abs(a) \div Abs(b))

\* None
None == [none |-> TRUE]

\* concatenation of a sequence of sequences
RECURSIVE Flatten(_)
Flatten(ss) == IF ss = <<>> THEN <<>> ELSE Head(ss) \o Flatten(Tail(ss))

-----------------------------------------------------------------------------
(* GroundTrackVisualizer._plot_track_segments *)

\* longitudes and latitudes the segmenter is tried on
LonValues == { Deg(-180), -3598, Deg(-10), Deg(0), Deg(10), 3598, Deg(180) }
LatValues == { Deg(-30), Deg(45) }

\* the difference taken without abs()
lon_diff_signed(ls, k) == ls[k + 1] - ls[k]

\* lon_diff = abs(lons[i] - lons[i-1]); k is the 0-based index i >= 1
lon_diff(ls, k) == Abs(ls[k + 1] - ls[k])

\* the comparison made non-strict
CrossedAntimeridian_ge(d) == d >= Deg(180)

\* if lon_diff > 180
CrossedAntimeridian(d) == d > Deg(180)

\* a segment of one point is thrown away
SaveSegment_dropSingle(segs, cur, guard) ==
    IF Len(guard) > 1 THEN Append(segs, cur) ELSE segs

\* if current_seg_lons: segments.append(current_seg)
SaveSegment(segs, cur, guard) ==
    IF guard # <<>> THEN Append(segs, cur) ELSE segs

\* current_seg = [value]
StartSegment(v) == << v >>

Call_plot_track_segments(la, lo) ==
    /\ pc = "idle"
    /\ pc' = "seg_loop"
    /\ caller' = "_plot_track_segments"
    /\ lats' = la
    /\ lons' = lo
    /\ seg_i' = 0
    /\ segments_lats' = <<>>
    /\ segments_lons' = <<>>
    /\ current_seg_lats' = <<>>
    /\ current_seg_lons' = <<>>
    /\ UNCHANGED << exception, propVars, geoVars,
                    partVars, colVars, tleVars >>

\* one iteration of "for i in range(len(lons))"
SegmentStep ==
    /\ pc = "seg_loop"
    /\ seg_i < Len(lons)
    /\ IF seg_i > 0 /\ CrossedAntimeridian(lon_diff(lons, seg_i))
       THEN /\ segments_lons' =
                  SaveSegment(segments_lons, current_seg_lons, current_seg_lons)
            /\ segments_lats' =
                  SaveSegment(segments_lats, current_seg_lats, current_seg_lons)
            /\ current_seg_lons' = StartSegment(lons[seg_i + 1])
            /\ current_seg_lats' = StartSegment(lats[seg_i + 1])
       ELSE /\ current_seg_lons' = Append(current_seg_lons, lons[seg_i + 1])
            /\ current_seg_lats' = Append(current_seg_lats, lats[seg_i + 1])
            /\ UNCHANGED << segments_lons, segments_lats >>
    /\ seg_i' = seg_i + 1
    /\ UNCHANGED << pc, caller, exception, lats, lons, propVars, geoVars,
                    partVars, colVars, tleVars >>

\* the loop is over: "Add final segment"
SegmentFinish ==
    /\ pc = "seg_loop"
    /\ seg_i >= Len(lons)
    /\ segments_lons' =
           SaveSegment(segments_lons, current_seg_lons, current_seg_lons)
    /\ segments_lats' =
           SaveSegment(segments_lats, current_seg_lats, current_seg_lons)
    /\ pc' = "seg_done"
    /\ UNCHANGED << caller, exception, lats, lons, seg_i,
                    current_seg_lats, current_seg_lons, propVars, geoVars,
                    partVars, colVars, tleVars >>

-----------------------------------------------------------------------------
(* OrbitalPropagator.eci_to_geodetic *)

\* omega_earth, angle units per tick
omega_earth == 1

\* the sidereal angle at J2000.0 (4.894961212823756 rad), in angle units
GMST0 == 5609

\* 2 * math.pi, in angle units
TwoPi == 7200

\* j2000 = datetime(2000, 1, 1, 12, 0, 0), in ticks
j2000 == 0

\* math.atan2(y, x) in angle units, for the arguments whose angle is a
\* multiple of 45 degrees (the only ones the model feeds it)
atan2(y, x) ==
    CASE y = 0 /\ x >= 0     -> Deg(0)
      [] y = 0 /\ x < 0      -> Deg(180)
      [] y > 0 /\ x = 0      -> Deg(90)
      [] y < 0 /\ x = 0      -> Deg(-90)
      [] y > 0 /\ x = y      -> Deg(45)
      [] y > 0 /\ x = -y     -> Deg(135)
      [] y < 0 /\ x = y      -> Deg(-135)
      [] y < 0 /\ x = -y     -> Deg(-45)

\* math.sqrt, rounded down to an integer
sqrt(n) == CHOOSE r \in 0..n : r * r <= n /\ n < (r + 1) * (r + 1)

\* gmst_rad = (4.894961212823756 + omega_earth * seconds_since_j2000) % (2 pi)
gmst_rad(dt) == (GMST0 + omega_earth * (dt - j2000)) % TwoPi

\* the normalisation without its second branch
NormalizeLongitude_noAdd(lon_deg) ==
    IF lon_deg > Deg(180) THEN lon_deg - Deg(360) ELSE lon_deg

\* if lon_deg > 180: lon_deg -= 360 / elif lon_deg < -180: lon_deg += 360
NormalizeLongitude(lon_deg) ==
    IF lon_deg > Deg(180) THEN lon_deg - Deg(360)
    ELSE IF lon_deg < Deg(-180) THEN lon_deg + Deg(360)
    ELSE lon_deg

\* the (latitude_deg, longitude_deg) part of the returned tuple; the angle
\* unit stands for radians and degrees alike, so math.degrees is the identity
eci_to_geodetic(position_eci, dt) ==
    LET x == position_eci[1]
        y == position_eci[2]
        z == position_eci[3]
        lon_rad == atan2(y, x) - gmst_rad(dt)
        r_xy == sqrt(x * x + y * y)
    IN  [ latitude_deg  |-> atan2(z, r_xy),
          longitude_deg |-> NormalizeLongitude(lon_rad) ]

\* positions eci_to_geodetic is tried on: every direction of the equatorial
\* plane that is a multiple of 45 degrees, at latitudes 0 and +/-45 where
\* sqrt(x^2 + y^2) is an integer, and the two poles
GeoPositions ==
    { p \in { << x, y, z >> : x \in -1..1, y \in -1..1, z \in -1..1 } :
        p[3] = 0 \/ p[1] * p[2] = 0 }

Call_eci_to_geodetic(position_eci, dt) ==
    /\ pc = "idle"
    /\ pc' = "geo_done"
    /\ caller' = "eci_to_geodetic"
    /\ geo_position' = position_eci
    /\ geo_dt' = dt
    /\ geo_out' = eci_to_geodetic(position_eci, dt)
    /\ UNCHANGED << exception, segVars, propVars, partVars, colVars, tleVars >>

-----------------------------------------------------------------------------
(* OrbitalPropagator.propagate_multiple and get_current_position *)

\* timedelta(minutes=1), in ticks
TicksPerMinute == 5

\* arguments propagate_multiple is called with
StartTimes == { 0, 1591 }
Durations  == { -1, 0, 1, 2 }
StepValues == { -90, -13, 0, 12, 13, 20, 45, 90, 150 }

\* what self.satellite.sgp4(jd, fr) may answer at an epoch
PropagatorOutcomes ==
    { [ error |-> 0, position |-> << 1, 0, 0 >> ],
      [ error |-> 0, position |-> << -1, 1, 0 >> ],
      [ error |-> 1, position |-> << 0, 0, 0 >> ] }

\* the division at line 83 raises when the divisor is zero
DivisionRaises(step) == step = 0

\* the step count taken in absolute value
NumSteps_abs(dur, step) == Abs(dur * 60) \div Abs(step)

\* the step count rounded to nearest
NumSteps_round(dur, step) == IntTrunc(2 * dur * 60 + step, 2 * step)

\* num_steps = int((duration_hours * 60) / time_step_minutes)
NumSteps(dur, step) == IntTrunc(dur * 60, step)

\* range(num_steps)
LoopBound_noPlusOne(n) == n

\* range(num_steps + 1)
LoopBound(n) == n + 1

\* every epoch placed one step after the start
TargetEpoch_noIndex(st, k, step) == st + TicksPerMinute * step

\* current_time = start_time + timedelta(minutes=i * time_step_minutes)
TargetEpoch(st, k, step) == st + TicksPerMinute * (k * step)

\* the record appended to results
Sample(t, position) ==
    [ time            |-> t,
      position_eci_km |-> position,
      latitude_deg    |-> eci_to_geodetic(position, t).latitude_deg,
      longitude_deg   |-> eci_to_geodetic(position, t).longitude_deg ]

\* a new sample is put in front of the list
Collect_prepend(res, t, outcome) ==
    IF outcome.error # 0 THEN res
    ELSE << Sample(t, outcome.position) >> \o res

\* a failed epoch is appended like a successful one
Collect_appendAlways(res, t, outcome) == Append(res, Sample(t, outcome.position))

\* if error != 0: continue, else results.append({...})
Collect(res, t, outcome) ==
    IF outcome.error # 0 THEN res ELSE Append(res, Sample(t, outcome.position))

\* lines 82-83, entered from either public operation
Enter_propagate_multiple(st, dur, step) ==
    /\ start_time' = st
    /\ duration_hours' = dur
    /\ time_step_minutes' = step
    /\ results' = <<>>
    /\ calls' = <<>>
    /\ warnings' = <<>>
    /\ returned' = None
    /\ i' = 0
    /\ IF DivisionRaises(step)
       THEN /\ pc' = "raised"
            /\ exception' = "ZeroDivisionError"
            /\ num_steps' = 0
       ELSE /\ NumSteps(dur, step) <= MaxSteps
            /\ pc' = "prop_loop"
            /\ exception' = "none"
            /\ num_steps' = NumSteps(dur, step)
    /\ UNCHANGED << segVars, geoVars,
                    partVars, colVars, tleVars >>

Call_propagate_multiple(st, dur, step) ==
    /\ pc = "idle"
    /\ caller' = "propagate_multiple"
    /\ Enter_propagate_multiple(st, dur, step)

\* propagate_multiple(datetime.utcnow(), duration_hours=0, time_step_minutes=0)
Call_get_current_position(now) ==
    /\ pc = "idle"
    /\ caller' = "get_current_position"
    /\ Enter_propagate_multiple(now, 0, 0)

\* one iteration of "for i in range(num_steps + 1)"
PropagateStep ==
    /\ pc = "prop_loop"
    /\ i < LoopBound(num_steps)
    /\ LET current_time == TargetEpoch(start_time, i, time_step_minutes)
       IN  \E outcome \in PropagatorOutcomes :
             /\ calls' = Append(calls, [ time |-> current_time,
                                         error |-> outcome.error ])
             /\ warnings' = IF outcome.error # 0
                            THEN Append(warnings, current_time)
                            ELSE warnings
             /\ results' = Collect(results, current_time, outcome)
    /\ i' = i + 1
    /\ UNCHANGED << pc, caller, exception, start_time, duration_hours,
                    time_step_minutes, num_steps, returned, segVars, geoVars,
                    partVars, colVars, tleVars >>

\* "return results"; get_current_position then returns
\* "results[0] if results else None"
PropagateReturn ==
    /\ pc = "prop_loop"
    /\ i >= LoopBound(num_steps)
    /\ pc' = "prop_done"
    /\ returned' = IF caller = "get_current_position"
                   THEN (IF results # <<>> THEN results[1] ELSE None)
                   ELSE results
    /\ UNCHANGED << caller, exception, start_time, duration_hours,
                    time_step_minutes, num_steps, i, results, calls, warnings,
                    segVars, geoVars,
                    partVars, colVars, tleVars >>

-----------------------------------------------------------------------------
(* GroundTrackVisualizer._plot_track_segments_colored *)

\* lon_diff = abs(lons[i] - lons[i-1]) of line 288; k is the 0-based index
colored_lon_diff(ls, k) == Abs(ls[k + 1] - ls[k])

\* the comparison of line 289 made non-strict
colored_crossed_ge(d) == d >= Deg(180)

\* if lon_diff > 180 of line 289
colored_crossed(d) == d > Deg(180)

\* the four lists before the loop
ColoredStart ==
    [ segments_lats    |-> <<>>, segments_lons    |-> <<>>,
      current_seg_lats |-> <<>>, current_seg_lons |-> <<>> ]

\* the body of "for i in range(len(lons))", lines 287-300
ColoredIteration(la, lo, k, st) ==
    IF k > 0 /\ colored_crossed(colored_lon_diff(lo, k))
    THEN [ segments_lons    |-> IF st.current_seg_lons # <<>>
                                THEN Append(st.segments_lons, st.current_seg_lons)
                                ELSE st.segments_lons,
           segments_lats    |-> IF st.current_seg_lons # <<>>
                                THEN Append(st.segments_lats, st.current_seg_lats)
                                ELSE st.segments_lats,
           current_seg_lons |-> << lo[k + 1] >>,
           current_seg_lats |-> << la[k + 1] >> ]
    ELSE [ st EXCEPT !.current_seg_lons = Append(@, lo[k + 1]),
                     !.current_seg_lats = Append(@, la[k + 1]) ]

\* the loop from index k on
RECURSIVE ColoredLoop(_, _, _, _)
ColoredLoop(la, lo, k, st) ==
    IF k >= Len(lo) THEN st
    ELSE ColoredLoop(la, lo, k + 1, ColoredIteration(la, lo, k, st))

\* the segments _plot_track_segments_colored draws, lines 281-304
plot_track_segments_colored(la, lo) ==
    LET st == ColoredLoop(la, lo, 0, ColoredStart)
    IN  [ segments_lons |-> IF st.current_seg_lons # <<>>
                            THEN Append(st.segments_lons, st.current_seg_lons)
                            ELSE st.segments_lons,
          segments_lats |-> IF st.current_seg_lons # <<>>
                            THEN Append(st.segments_lats, st.current_seg_lats)
                            ELSE st.segments_lats ]

\* the coloured segmenter run on the arguments the segmenter has just
\* finished with
Call_plot_track_segments_colored ==
    /\ pc = "seg_done"
    /\ pc' = "col_done"
    /\ col_segments_lons' = plot_track_segments_colored(lats, lons).segments_lons
    /\ col_segments_lats' = plot_track_segments_colored(lats, lons).segments_lats
    /\ UNCHANGED << caller, exception, segVars, propVars, geoVars,
                    partVars, tleVars >>

-----------------------------------------------------------------------------
(* GroundTrackVisualizer.plot_multiple_orbits *)

\* colors = ['blue', 'red', 'green', 'purple', 'orange']
colors == << "blue", "red", "green", "purple", "orange" >>

\* min()
min(a, b) == IF a <= b THEN a ELSE b

\* sample lists plot_multiple_orbits is called with: what propagate_multiple
\* returns for n epochs from st, step minutes apart, with the satellite at
\* << 1, 0, 0 >>; with gap the second epoch failed and is missing
PartitionStarts == { 0, 5000 }
PartitionSteps  == { 5, 90, 150 }
NumOrbitsValues == { 0, 1, 2, 3, 6 }

TrackOf(st, n, step, gap) ==
    LET all == [ k \in 1..n |->
                   Sample(TargetEpoch(st, k - 1, step), << 1, 0, 0 >>) ]
    IN  IF gap /\ n >= 3 THEN << all[1] >> \o SubSeq(all, 3, n) ELSE all

\* results[-1]['time'] - results[0]['time'], in ticks
SpanTicks(res) == res[Len(res)].time - res[1].time

\* the mean step taken over count - 1 intervals
PointsPerOrbit_countMinusOne(res) ==
    IntTrunc(90 * TicksPerMinute * (Len(res) - 1), SpanTicks(res))

\* duration = span / 60 s; time_step = duration / len(results);
\* points_per_orbit = int(90 / time_step), that is
\* int(90 * len(results) / duration)
PointsPerOrbit(res) ==
    IntTrunc(90 * TicksPerMinute * Len(res), SpanTicks(res))

\* points_per_orbit = len(results) // num_orbits
FallbackPointsPerOrbit(res, n) == Len(res) \div n

\* range(min(num_orbits, len(colors)))
OrbitLimit(n) == min(n, Len(colors))

\* the break taken one slice early
SliceOverruns_ge(end_idx, res) == end_idx >= Len(res)

\* if end_idx > len(results): break
SliceOverruns(end_idx, res) == end_idx > Len(res)

\* results[start_idx:end_idx] for 0 <= start_idx <= end_idx <= len(results)
Slice(res, start_idx, end_idx) == SubSeq(res, start_idx + 1, end_idx)

\* lines 231-237
Call_plot_multiple_orbits(res, n) ==
    /\ pc = "idle"
    /\ caller' = "plot_multiple_orbits"
    /\ part_results' = res
    /\ num_orbits' = n
    /\ orbit_num' = 0
    /\ slices' = <<>>
    /\ IF Len(res) > 0
       THEN IF SpanTicks(res) = 0
            THEN /\ pc' = "raised"
                 /\ exception' = "ZeroDivisionError"
                 /\ points_per_orbit' = 0
            ELSE /\ pc' = "part_loop"
                 /\ exception' = "none"
                 /\ points_per_orbit' = PointsPerOrbit(res)
       ELSE IF n = 0
            THEN /\ pc' = "raised"
                 /\ exception' = "ZeroDivisionError"
                 /\ points_per_orbit' = 0
            ELSE /\ pc' = "part_loop"
                 /\ exception' = "none"
                 /\ points_per_orbit' = FallbackPointsPerOrbit(res, n)
    /\ UNCHANGED << segVars, propVars, geoVars, colVars, tleVars >>

\* one iteration of "for orbit_num in range(min(num_orbits, len(colors)))"
PartitionStep ==
    /\ pc = "part_loop"
    /\ orbit_num < OrbitLimit(num_orbits)
    /\ LET start_idx == orbit_num * points_per_orbit
           end_idx == start_idx + points_per_orbit
           orbit_results == Slice(part_results, start_idx, end_idx)
           slice_lats == [ k \in 1..Len(orbit_results) |->
                             orbit_results[k].latitude_deg ]
           slice_lons == [ k \in 1..Len(orbit_results) |->
                             orbit_results[k].longitude_deg ]
       IN  IF SliceOverruns(end_idx, part_results)
           THEN /\ pc' = "part_done"
                /\ UNCHANGED << orbit_num, slices >>
           ELSE /\ slices' = Append(slices,
                     [ label         |-> orbit_num + 1,
                       color         |-> colors[orbit_num + 1],
                       start_idx     |-> start_idx,
                       end_idx       |-> end_idx,
                       orbit_results |-> orbit_results,
                       segments_lons |->
                         plot_track_segments_colored(slice_lats, slice_lons).segments_lons,
                       segments_lats |->
                         plot_track_segments_colored(slice_lats, slice_lons).segments_lats ])
                /\ orbit_num' = orbit_num + 1
                /\ pc' = pc
    /\ UNCHANGED << caller, exception, part_results, num_orbits,
                    points_per_orbit, segVars, propVars, geoVars, colVars,
                    tleVars >>

\* the range is exhausted
PartitionFinish ==
    /\ pc = "part_loop"
    /\ orbit_num >= OrbitLimit(num_orbits)
    /\ pc' = "part_done"
    /\ UNCHANGED << caller, exception, partVars, segVars, propVars, geoVars,
                    colVars, tleVars >>

-----------------------------------------------------------------------------
(* TLEParser *)

\* what self.tle_file may hold when read_tle opens it
TLEFiles ==
    { [ exists |-> FALSE, lines |-> 0, prefixes_ok |-> FALSE,
        name |-> "", parses |-> FALSE ],
      [ exists |-> TRUE,  lines |-> 2, prefixes_ok |-> TRUE,
        name |-> "ISS (ZARYA)", parses |-> TRUE ],
      [ exists |-> TRUE,  lines |-> 3, prefixes_ok |-> FALSE,
        name |-> "ISS (ZARYA)", parses |-> TRUE ],
      [ exists |-> TRUE,  lines |-> 3, prefixes_ok |-> TRUE,
        name |-> "ISS (ZARYA)", parses |-> TRUE ],
      [ exists |-> TRUE,  lines |-> 3, prefixes_ok |-> TRUE,
        name |-> "HST", parses |-> TRUE ],
      [ exists |-> TRUE,  lines |-> 4, prefixes_ok |-> TRUE,
        name |-> "NOAA 19", parses |-> FALSE ] }

\* read_tle: the exception it raises, or "none" and the name it returns
read_tle(file) ==
    IF ~file.exists
    THEN [ raised |-> "FileNotFoundError", satellite_name |-> "" ]
    ELSE IF file.lines < 3 \/ ~file.prefixes_ok
    THEN [ raised |-> "ValueError", satellite_name |-> "" ]
    ELSE [ raised |-> "none", satellite_name |-> file.name ]

\* a parse_tle that starts by forgetting the previous satellite
parse_tle_resetsFirst(sat, name, file) ==
    LET r == read_tle(file)
    IN  IF r.raised # "none"
        THEN [ satellite |-> None, satellite_name |-> None,
               raised |-> r.raised, failed_in |-> "read_tle" ]
        ELSE IF ~file.parses
        THEN [ satellite |-> None, satellite_name |-> r.satellite_name,
               raised |-> "ValueError", failed_in |-> "twoline2rv" ]
        ELSE [ satellite |-> [ satrec |-> file.name ],
               satellite_name |-> r.satellite_name,
               raised |-> "none", failed_in |-> "none" ]

\* parse_tle, lines 72-77: the fields after the call and how it ended
parse_tle(sat, name, file) ==
    LET r == read_tle(file)
    IN  IF r.raised # "none"
        THEN [ satellite |-> sat, satellite_name |-> name,
               raised |-> r.raised, failed_in |-> "read_tle" ]
        ELSE IF ~file.parses
        THEN [ satellite |-> sat, satellite_name |-> r.satellite_name,
               raised |-> "ValueError", failed_in |-> "twoline2rv" ]
        ELSE [ satellite |-> [ satrec |-> file.name ],
               satellite_name |-> r.satellite_name,
               raised |-> "none", failed_in |-> "none" ]

\* if self.satellite is None: raise ValueError(...)
extract_orbital_elements(sat) ==
    IF sat = None THEN "ValueError" ELSE "none"

Call_parse_tle(file) ==
    /\ pc \in { "idle", "parser" }
    /\ ops < MaxParserOps
    /\ pc' = "parser"
    /\ caller' = "TLEParser"
    /\ ops' = ops + 1
    /\ LET out == parse_tle(satellite, satellite_name, file)
       IN  /\ satellite' = out.satellite
           /\ satellite_name' = out.satellite_name
           /\ parsed_ok' = (parsed_ok \/ out.raised = "none")
           /\ last_call' = [ method |-> "parse_tle", raised |-> out.raised,
                             failed_in |-> out.failed_in ]
    /\ UNCHANGED << exception, segVars, propVars, geoVars, partVars, colVars >>

Call_extract_orbital_elements ==
    /\ pc \in { "idle", "parser" }
    /\ ops < MaxParserOps
    /\ pc' = "parser"
    /\ caller' = "TLEParser"
    /\ ops' = ops + 1
    /\ last_call' = [ method |-> "extract_orbital_elements",
                      raised |-> extract_orbital_elements(satellite),
                      failed_in |-> "none" ]
    /\ UNCHANGED << exception, satellite, satellite_name, parsed_ok,
                    segVars, propVars, geoVars, partVars, colVars >>

-----------------------------------------------------------------------------
Init ==
    /\ pc = "idle"
    /\ caller = "none"
    /\ exception = "none"
    /\ lats = <<>>
    /\ lons = <<>>
    /\ seg_i = 0
    /\ segments_lats = <<>>
    /\ segments_lons = <<>>
    /\ current_seg_lats = <<>>
    /\ current_seg_lons = <<>>
    /\ start_time = 0
    /\ duration_hours = 0
    /\ time_step_minutes = 0
    /\ num_steps = 0
    /\ i = 0
    /\ results = <<>>
    /\ calls = <<>>
    /\ warnings = <<>>
    /\ returned = None
    /\ geo_position = << 0, 0, 0 >>
    /\ geo_dt = 0
    /\ geo_out = None
    /\ part_results = <<>>
    /\ num_orbits = 0
    /\ points_per_orbit = 0
    /\ orbit_num = 0
    /\ slices = <<>>
    /\ col_segments_lats = <<>>
    /\ col_segments_lons = <<>>
    /\ satellite = None
    /\ satellite_name = None
    /\ parsed_ok = FALSE
    /\ last_call = None
    /\ ops = 0

Next ==
    \/ /\ pc = "idle"
       /\ \E n \in 0..MaxTrack :
            \E lo \in [1..n -> LonValues], la \in [1..n -> LatValues] :
               Call_plot_track_segments(la, lo)
    \/ SegmentStep
    \/ SegmentFinish
    \/ /\ pc = "idle"
       /\ \E p \in GeoPositions, dt \in 0..MaxGeoTicks :
            Call_eci_to_geodetic(p, dt)
    \/ /\ pc = "idle"
       /\ \E st \in StartTimes, dur \in Durations, step \in StepValues :
            Call_propagate_multiple(st, dur, step)
    \/ /\ pc = "idle"
       /\ \E now \in StartTimes : Call_get_current_position(now)
    \/ PropagateStep
    \/ PropagateReturn
    \/ Call_plot_track_segments_colored
    \/ /\ pc = "idle"
       /\ \E st \in PartitionStarts, n \in 0..MaxSamples, step \in PartitionSteps,
             gap \in BOOLEAN, orbits \in NumOrbitsValues :
            Call_plot_multiple_orbits(TrackOf(st, n, step, gap), orbits)
    \/ PartitionStep
    \/ PartitionFinish
    \/ \E file \in TLEFiles : Call_parse_tle(file)
    \/ Call_extract_orbital_elements

Spec == Init /\ [][Next]_vars
-----------------------------------------------------------------------------
(* Properties of the track segmenter *)

SegmenterRunning == pc \in { "seg_loop", "seg_done" }

\* the segments produced so far, the open one included while the loop runs
SegmentsSoFar(closed, open) ==
    IF pc = "seg_loop" /\ open # <<>> THEN Append(closed, open) ELSE closed

\* length of the first k segments together
RECURSIVE PointsIn(_, _)
PointsIn(segs, k) == IF k = 0 THEN 0 ELSE Len(segs[k]) + PointsIn(segs, k - 1)

\* 0-based input indices at which a segment starts
SegmentStarts(segs) == { PointsIn(segs, k - 1) : k \in 1..Len(segs) }

\* C1: a new segment is opened at sample i >= 1 exactly when
\* abs(lon[i] - lon[i-1]) > 180 degrees (strict, either sign): a jump of
\* exactly 180 does not break, 179.9 -> -179.9 gives two segments broken
\* between the two samples, -10 -> 10 gives one segment.
C1_BreakIffJumpOver180 ==
    SegmenterRunning =>
      /\ \A k \in 1..(seg_i - 1) :
            (k \in SegmentStarts(SegmentsSoFar(segments_lons, current_seg_lons)))
              <=> (lons[k + 1] - lons[k] > 3600 \/ lons[k] - lons[k + 1] > 3600)
      /\ (pc = "seg_done" /\ lons = << 3598, -3598 >>)
            => segments_lons = << << 3598 >>, << -3598 >> >>
      /\ (pc = "seg_done" /\ lons = << -200, 200 >>)
            => segments_lons = << << -200, 200 >> >>
      /\ (pc = "seg_done" /\ lons = << 0, 3600 >>)
            => segments_lons = << << 0, 3600 >> >>

\* a finished run with a jump of exactly 180 (kept) and one of 359.8 (broken)
C1_Witness ==
    /\ pc = "seg_done"
    /\ lons = << 0, 3600, -3598 >>
    /\ segments_lons = << << 0, 3600 >>, << -3598 >> >>

\* C2: for a non-empty input the emitted segments partition the input:
\* every segment has at least one point, none is discarded, and the
\* segments concatenated in output order are the input (lon, lat) sequence.
C2_SegmentsPartitionInput ==
    (pc = "seg_done" /\ lons # <<>>) =>
      /\ Len(segments_lons) >= 1
      /\ Len(segments_lats) = Len(segments_lons)
      /\ \A k \in 1..Len(segments_lons) :
            /\ Len(segments_lons[k]) >= 1
            /\ Len(segments_lats[k]) = Len(segments_lons[k])
      /\ Flatten(segments_lons) = lons
      /\ Flatten(segments_lats) = lats
      /\ PointsIn(segments_lons, Len(segments_lons)) = Len(lons)
      /\ Len(lons) = 1 =>
            /\ segments_lons = << << lons[1] >> >>
            /\ segments_lats = << << lats[1] >> >>

\* a finished run that emitted single-point segments only
C2_Witness ==
    /\ pc = "seg_done"
    /\ Len(lons) = MaxTrack
    /\ Len(segments_lons) = MaxTrack
    /\ \A k \in 1..Len(segments_lons) : Len(segments_lons[k]) = 1

\* C3: inside every emitted segment consecutive longitudes differ by at
\* most 180 degrees.
C3_NoJumpInsideSegment ==
    SegmenterRunning =>
      \A k \in 1..Len(SegmentsSoFar(segments_lons, current_seg_lons)) :
        LET seg == SegmentsSoFar(segments_lons, current_seg_lons)[k]
        IN  \A j \in 1..(Len(seg) - 1) :
              /\ seg[j + 1] - seg[j] <= 3600
              /\ seg[j] - seg[j + 1] <= 3600

\* a finished run where a break fell between two samples of opposite sign
\* and the segment before it holds more than one point
C3_Witness ==
    /\ pc = "seg_done"
    /\ Len(segments_lons) = 2
    /\ Len(segments_lons[1]) = 2
    /\ segments_lons[1][2] > 0
    /\ segments_lons[2][1] < 0
-----------------------------------------------------------------------------
(* Properties of the propagation loop *)

PropagationCalled == caller \in { "propagate_multiple", "get_current_position" }
PropagationRunning == pc \in { "prop_loop", "prop_done" }

\* the epochs of a sequence of records
Times(recs) == [ k \in 1..Len(recs) |-> recs[k].time ]

Succeeded(c) == c.error = 0
Failed(c) == c.error # 0

\* C4: epochs for which the propagator reports a non-zero error code are
\* skipped, and only those: the samples are the successful epochs in their
\* original order, a warning is printed for each failed one, and the loop
\* runs to its last epoch whichever epochs fail (2 failures out of 10
\* epochs leave 8 samples).
C4_FailedEpochsSkipped ==
    PropagationRunning =>
      /\ Times(results) = Times(SelectSeq(calls, Succeeded))
      /\ warnings = Times(SelectSeq(calls, Failed))
      /\ exception = "none"
      /\ Len(calls) = i
      /\ pc = "prop_done" =>
            /\ Len(calls) = (IF num_steps >= 0 THEN num_steps + 1 ELSE 0)
            /\ (Len(calls) = 10 /\ Len(warnings) = 2) => Len(results) = 8

\* ten epochs, the first and the last of them failed, eight samples returned
C4_Witness ==
    /\ pc = "prop_done"
    /\ Len(calls) = 10
    /\ calls[1].error # 0
    /\ calls[10].error # 0
    /\ Len(results) = 8

\* C5: for duration >= 0 and step > 0 the loop visits exactly
\* floor(duration / step) + 1 target epochs, the i-th being
\* start + i * step, and calls the propagator once for each, in that order.
C5_EpochGrid ==
    (PropagationRunning /\ duration_hours >= 0 /\ time_step_minutes > 0) =>
      /\ \A k \in 1..Len(calls) :
            calls[k].time = start_time + 5 * (k - 1) * time_step_minutes
      /\ Len(calls) <= ((duration_hours * 60) \div time_step_minutes) + 1
      /\ pc = "prop_done" =>
            Len(calls) = ((duration_hours * 60) \div time_step_minutes) + 1

\* one hour in steps of 13 minutes: floor(60 / 13) + 1 = 5 epochs
C5_Witness ==
    /\ pc = "prop_done"
    /\ duration_hours = 1
    /\ time_step_minutes = 13
    /\ Len(calls) = 5

StrictlyIncreasingEpochs ==
    \A k \in 1..(Len(results) - 1) : results[k + 1].time > results[k].time

\* C6 as stated: the samples are strictly time-ordered for every start
\* time, duration and step the loop accepts.
C6_Original == PropagationRunning => StrictlyIncreasingEpochs

\* C6: for a positive step the samples are strictly time-ordered, no two
\* share an epoch, and their order is the order of the target epochs; for
\* a negative step the epochs of the samples strictly decrease.
C6_StrictlyTimeOrdered ==
    /\ (PropagationRunning /\ time_step_minutes > 0) =>
          /\ StrictlyIncreasingEpochs
          /\ Times(results) = Times(SelectSeq(calls, Succeeded))
    /\ (PropagationRunning /\ time_step_minutes < 0) =>
          \A k \in 1..(Len(results) - 1) : results[k + 1].time < results[k].time

\* a returned sequence of several samples with a skipped epoch in between
C6_Witness ==
    /\ pc = "prop_done"
    /\ time_step_minutes > 0
    /\ Len(results) >= 3
    /\ calls[1].error = 0
    /\ calls[2].error # 0
    /\ calls[3].error = 0

\* C7 as stated: a zero or negative step is surfaced as an error before the
\* propagator is invoked, and no samples are ever returned for it.
C7_Original ==
    (PropagationCalled /\ time_step_minutes <= 0) =>
      /\ calls = <<>>
      /\ pc # "prop_done"

\* C7: a zero step raises ZeroDivisionError before the propagator is
\* invoked; a negative step (duration >= 0) is not rejected: the loop
\* returns normally after at most one propagator call, at the start epoch,
\* and with at most one sample.
C7_ZeroRaisesNegativeReturns ==
    /\ (PropagationCalled /\ time_step_minutes = 0) =>
          /\ pc = "raised"
          /\ exception = "ZeroDivisionError"
          /\ calls = <<>>
          /\ results = <<>>
    /\ (PropagationCalled /\ time_step_minutes < 0 /\ duration_hours >= 0) =>
          /\ pc \in { "prop_loop", "prop_done" }
          /\ exception = "none"
          /\ Len(calls) <= 1
          /\ Len(results) <= 1
          /\ \A k \in 1..Len(calls) : calls[k].time = start_time
          /\ pc = "prop_done" =>
                Len(calls) = (IF duration_hours * 60 < -time_step_minutes
                              THEN 1 ELSE 0)

\* a negative step for which the loop returned one sample
C7_Witness ==
    /\ pc = "prop_done"
    /\ time_step_minutes < 0
    /\ Len(results) = 1

C9_Claim ==
    (caller = "get_current_position" /\ pc # "idle") =>
      /\ exception = "none"
      /\ pc # "raised"
      /\ pc = "prop_done" =>
            returned = (IF calls[1].error = 0 THEN results[1] ELSE None)

-----------------------------------------------------------------------------
(* Properties of the coordinate transform *)

\* every longitude the model has computed: the one of a direct call and
\* those stored in the samples
LongitudesComputed ==
    (IF pc = "geo_done" THEN { geo_out.longitude_deg } ELSE {})
      \cup { results[k].longitude_deg : k \in 1..Len(results) }

\* C10 as stated: the longitude lies in (-180, 180] for every position
\* with non-zero (x, y); -180 is never returned.
C10_Original ==
    (pc = "geo_done" /\ << geo_position[1], geo_position[2] >> # << 0, 0 >>) =>
      /\ geo_out.longitude_deg > -3600
      /\ geo_out.longitude_deg <= 3600

\* C10: the longitude lies in the closed interval [-180, 180] (one
\* adjustment by 360 is enough); -180 is returned when atan2(y, x) - theta
\* is exactly -pi.
C10_LongitudeInClosedRange ==
    /\ \A l \in LongitudesComputed : -3600 <= l /\ l <= 3600
    /\ pc = "geo_done" =>
          LET raw == atan2(geo_position[2], geo_position[1]) - gmst_rad(geo_dt)
          IN  /\ (geo_out.longitude_deg - raw) \in { 0, 7200, -7200 }
              /\ raw = -3600 => geo_out.longitude_deg = -3600

\* a call that returned -180 for a position off the polar axis
C10_Witness ==
    /\ pc = "geo_done"
    /\ geo_position[1] # 0
    /\ geo_out.longitude_deg = -3600
-----------------------------------------------------------------------------
(* Properties of the orbit partitioner *)

PartitionCalled == caller = "plot_multiple_orbits"
PartitionRunning == pc \in { "part_loop", "part_done" }

\* the contiguous, fully populated slices of points_per_orbit samples each,
\* labelled 1, 2, ... in order
SlicesAreFullAndContiguous ==
    /\ Len(slices) = orbit_num
    /\ \A k \in 1..Len(slices) :
          /\ slices[k].label = k
          /\ slices[k].start_idx = (k - 1) * points_per_orbit
          /\ slices[k].end_idx = k * points_per_orbit
          /\ slices[k].end_idx <= Len(part_results)
          /\ Len(slices[k].orbit_results) = points_per_orbit
          /\ \A j \in 1..points_per_orbit :
                slices[k].orbit_results[j] =
                    part_results[(k - 1) * points_per_orbit + j]

\* C11 as stated: one slice for every k below orbit_count whose upper bound
\* fits, min(orbit_count, floor(count / points_per_orbit)) slices in all.
C11_Original ==
    (PartitionRunning /\ points_per_orbit >= 1) =>
      /\ SlicesAreFullAndContiguous
      /\ pc = "part_done" =>
            Len(slices) = min(num_orbits,
                              Len(part_results) \div points_per_orbit)

\* C11: the slices emitted are samples[k*ppo : (k+1)*ppo) labelled k+1 for
\* k = 0, 1, ... in order, each fully populated; the loop stops at the first
\* k whose upper bound exceeds the sample count and never goes past five
\* slices (one per colour): min(orbit_count, 5, floor(count / ppo)) slices
\* for ppo >= 1, min(orbit_count, 5) empty slices for ppo = 0.
C11_SlicesUpToFiveColours ==
    PartitionRunning =>
      /\ points_per_orbit >= 0
      /\ SlicesAreFullAndContiguous
      /\ pc = "part_done" =>
            Len(slices) =
              (IF points_per_orbit >= 1
               THEN min(min(num_orbits, 5),
                        Len(part_results) \div points_per_orbit)
               ELSE min(num_orbits, 5))

\* six orbits asked for, samples enough for six slices, five emitted
C11_Witness ==
    /\ pc = "part_done"
    /\ num_orbits = 6
    /\ points_per_orbit >= 1
    /\ Len(part_results) >= 6 * points_per_orbit
    /\ Len(slices) = 5

\* the samples are 5 minutes apart throughout
FiveMinuteTrack ==
    /\ Len(part_results) >= 2
    /\ \A k \in 1..(Len(part_results) - 1) :
          part_results[k + 1].time - part_results[k].time = 25

\* C12 as stated: points_per_orbit = floor(period / mean step) with the
\* mean step taken over count - 1 intervals and the period estimate 92.7.
C12_Original ==
    (PartitionRunning /\ Len(part_results) >= 2) =>
      LET span == part_results[Len(part_results)].time - part_results[1].time
          intervals == Len(part_results) - 1
      IN  \* floor(92.7 / (span / (5 * intervals))), span in ticks
          /\ 2 * span * points_per_orbit <= 927 * intervals
          /\ 927 * intervals < 2 * span * (points_per_orbit + 1)

\* C12: points_per_orbit = floor(90 / (span / count)): the period is the
\* fixed 90 minutes and the span between the first and last sample is
\* divided by count; with a 5-minute step and orbit_count 3 that gives
\* 3 slices of 18 samples from 54 samples on and 2 full slices for 40.
C12_PointsPerOrbitFrom90AndCount ==
    (PartitionRunning /\ Len(part_results) >= 1) =>
      LET span == part_results[Len(part_results)].time - part_results[1].time
          count == Len(part_results)
      IN  /\ span > 0
          /\ span * points_per_orbit <= 90 * 5 * count
          /\ 90 * 5 * count < span * (points_per_orbit + 1)
          /\ (pc = "part_done" /\ FiveMinuteTrack /\ num_orbits = 3
                /\ count >= 54) =>
                /\ Len(slices) = 3
                /\ \A k \in 1..3 : Len(slices[k].orbit_results) = 18
          /\ (pc = "part_done" /\ FiveMinuteTrack /\ num_orbits = 3
                /\ count = 40) =>
                /\ Len(slices) = 2
                /\ \A k \in 1..2 : Len(slices[k].orbit_results) = 18

\* 19 samples 5 minutes apart: int(90 / (90 / 19)) = 19 points per orbit,
\* where floor(90 / 5) and floor(92.7 / 5) are 18
C12_Witness ==
    /\ pc = "part_done"
    /\ FiveMinuteTrack
    /\ Len(part_results) = 19
    /\ points_per_orbit = 19
    /\ num_orbits = 3
    /\ Len(slices) = 1

\* C13: with fewer than 2 samples no mean step is computed: points_per_orbit
\* is count divided by orbit_count and the call completes without a
\* division by zero.
C13_Claim ==
    (PartitionCalled /\ Len(part_results) < 2 /\ num_orbits >= 1) =>
      /\ pc # "raised"
      /\ exception = "none"
      /\ points_per_orbit = Len(part_results) \div num_orbits

\* C14: for an empty sample sequence the segmenter returns zero segments
\* and the partitioner completes with nothing to draw, for every
\* orbit_count including 0.
C14_Claim ==
    /\ (pc = "seg_done" /\ lons = <<>>) =>
          segments_lons = <<>> /\ segments_lats = <<>>
    /\ (PartitionCalled /\ part_results = <<>>) =>
          /\ pc # "raised"
          /\ exception = "none"
          /\ \A k \in 1..Len(slices) : slices[k].segments_lons = <<>>
-----------------------------------------------------------------------------
(* Properties of TLEParser *)

\* C15: extract_orbital_elements raises ValueError exactly when no
\* parse_tle call has completed successfully, which is when satellite is
\* still None; a parse_tle call that fails inside read_tle leaves satellite
\* and satellite_name unchanged.
C15_ExtractNeedsSuccessfulParse ==
    /\ [](/\ (satellite = None) <=> ~parsed_ok
          /\ (pc = "parser" /\ last_call.method = "extract_orbital_elements") =>
                /\ last_call.raised \in { "none", "ValueError" }
                /\ (last_call.raised = "ValueError") <=> ~parsed_ok)
    /\ [][(/\ pc' = "parser"
           /\ ops' = ops + 1
           /\ last_call'.method = "parse_tle"
           /\ last_call'.failed_in = "read_tle")
            => (satellite' = satellite /\ satellite_name' = satellite_name)]_vars

\* the elements are extracted at the fourth call on a parser that has
\* parsed the HST file successfully
C15_Witness ==
    /\ pc = "parser"
    /\ ops = 4
    /\ last_call.method = "extract_orbital_elements"
    /\ last_call.raised = "none"
    /\ parsed_ok
    /\ satellite_name = "HST"
-----------------------------------------------------------------------------
(* Properties that span the steps of a loop, or two operations *)

IsPrefix(a, b) ==
    /\ Len(a) <= Len(b)
    /\ \A k \in 1..Len(a) : a[k] = b[k]

C17_ColoredSegmenterAgrees ==
    pc = "col_done" =>
      /\ col_segments_lons = segments_lons
      /\ col_segments_lats = segments_lats

\* both segmenters broke at a jump of 359.9 degrees and kept the jump of
\* exactly 180 that follows
C17_Witness ==
    /\ pc = "col_done"
    /\ lons = << 3598, -3600, 0 >>
    /\ col_segments_lons = << << 3598 >>, << -3600, 0 >> >>
====
